---------------------------- MODULE Spec2Model ----------------------------
(***************************************************************************)
(* menuentry: the desktop-entry codec (DesktopEntry.from_string /          *)
(* to_string / save), the entry store (get_all_desktop_files,              *)
(* load_all_entries) and the handlers of MenuEntryApp that call them.      *)
(*                                                                         *)
(* Text is a sequence of one-character strings, so that strip, split,      *)
(* partition, startswith and the substring test are computed character by  *)
(* character as the Python code computes them.  An optional value          *)
(* (str | None, DesktopEntry | None) is a sequence of length 0 or 1.       *)
(***************************************************************************)
EXTENDS Integers, Sequences, FiniteSets, TLC

VARIABLES
    pc,                \* position of the run being modelled
    entry,             \* codec: the in-memory entry e handed to to_string
    content,           \* codec: the text handed to from_string
    line_no,           \* from_string: number of lines of content scanned so far
    in_desktop_entry,  \* from_string: local in_desktop_entry
    data,              \* from_string: local data (dict key -> value)
    parsed,            \* codec: the entry from_string returned (optional)
    output,            \* codec: to_string of the parsed entry
    fs,                \* filesystem: resolved path -> [readable, text]
    dirs,              \* filesystem: the directories that exist
    root,              \* whether the OS lets the process write outside the home directory
    files,             \* store: what get_all_desktop_files last returned
    raised,            \* store: whether an exception escaped load_all_entries
    entries,           \* MenuEntryApp.entries
    current_entry,     \* MenuEntryApp.current_entry (optional)
    editor,            \* the values of the Editor's Input and Switch widgets
    notification,      \* the last self.notify(...) of the app
    ops                \* number of user actions handled so far

vars == <<pc, entry, content, line_no, in_desktop_entry, data, parsed, output,
          fs, dirs, root, files, raised, entries, current_entry, editor,
          notification, ops>>

codecVars == <<entry, content, line_no, in_desktop_entry, data, parsed, output>>
storeVars == <<fs, dirs, root, files, raised>>
appVars == <<entries, current_entry, editor, notification, ops>>

----------------------------------------------------------------------------
(* Python str operations, on sequences of characters.                      *)

NL == "\n"

\* the characters str.strip() and str.split() treat as whitespace
IsWs(c) == c \in {" ", "\t", "\n", "\r"}

StartsWith(s, p) == Len(s) >= Len(p) /\ SubSeq(s, 1, Len(p)) = p

EndsWith(s, p) == Len(s) >= Len(p) /\ SubSeq(s, Len(s) - Len(p) + 1, Len(s)) = p

\* sub in s
Contains(s, sub) ==
    \E i \in 1..(Len(s) - Len(sub) + 1) : SubSeq(s, i, i + Len(sub) - 1) = sub

\* index of the first occurrence of character c in s, 0 when there is none
IndexOf(s, c) ==
    IF \E i \in 1..Len(s) : s[i] = c
    THEN CHOOSE i \in 1..Len(s) : s[i] = c /\ \A j \in 1..(i - 1) : s[j] # c
    ELSE 0

\* s.strip()
Strip(s) ==
    IF \A i \in 1..Len(s) : IsWs(s[i])
    THEN <<>>
    ELSE LET a == CHOOSE i \in 1..Len(s) : ~IsWs(s[i]) /\ \A j \in 1..(i - 1) : IsWs(s[j])
             b == CHOOSE i \in 1..Len(s) : ~IsWs(s[i]) /\ \A j \in (i + 1)..Len(s) : IsWs(s[j])
         IN SubSeq(s, a, b)

\* s.partition(c): <<before, after>>; <<s, "">> when c does not occur
Partition(s, c) ==
    LET i == IndexOf(s, c)
    IN IF i = 0 THEN <<s, <<>>>>
       ELSE <<SubSeq(s, 1, i - 1), SubSeq(s, i + 1, Len(s))>>

\* s.split(c): the parts between occurrences of c, empty parts kept
RECURSIVE SplitOn(_, _)
SplitOn(s, c) ==
    LET i == IndexOf(s, c)
    IN IF i = 0 THEN <<s>>
       ELSE <<SubSeq(s, 1, i - 1)>> \o SplitOn(SubSeq(s, i + 1, Len(s)), c)

\* s.splitlines(): lines without their line break, no empty last line
RECURSIVE SplitLines(_)
SplitLines(s) ==
    IF s = <<>> THEN <<>>
    ELSE LET i == IndexOf(s, NL)
         IN IF i = 0 THEN <<s>>
            ELSE <<SubSeq(s, 1, i - 1)>> \o SplitLines(SubSeq(s, i + 1, Len(s)))

\* s.split(): the maximal runs of non-whitespace characters
RECURSIVE SplitWs(_)
SplitWs(s) ==
    IF \A i \in 1..Len(s) : IsWs(s[i]) THEN <<>>
    ELSE LET a == CHOOSE i \in 1..Len(s) : ~IsWs(s[i]) /\ \A j \in 1..(i - 1) : IsWs(s[j])
             e == IF \E i \in a..Len(s) : IsWs(s[i])
                  THEN (CHOOSE i \in a..Len(s) : IsWs(s[i]) /\ \A j \in a..(i - 1) : ~IsWs(s[j])) - 1
                  ELSE Len(s)
         IN <<SubSeq(s, a, e)>> \o SplitWs(SubSeq(s, e + 1, Len(s)))

\* sep.join(parts)
RECURSIVE Join(_, _)
Join(sep, parts) ==
    IF parts = <<>> THEN <<>>
    ELSE IF Len(parts) = 1 THEN parts[1]
    ELSE parts[1] \o sep \o Join(sep, Tail(parts))

UpperChars == <<"A","B","C","D","E","F","G","H","I","J","K","L","M",
                "N","O","P","Q","R","S","T","U","V","W","X","Y","Z">>
LowerChars == <<"a","b","c","d","e","f","g","h","i","j","k","l","m",
                "n","o","p","q","r","s","t","u","v","w","x","y","z">>

LowerChar(c) ==
    IF \E k \in 1..26 : UpperChars[k] = c
    THEN LowerChars[CHOOSE k \in 1..26 : UpperChars[k] = c]
    ELSE c

\* s.lower()
RECURSIVE Lower(_)
Lower(s) == IF s = <<>> THEN <<>> ELSE <<LowerChar(Head(s))>> \o Lower(Tail(s))

\* s.replace(a, b) for single characters a, b
RECURSIVE Replace(_, _, _)
Replace(s, a, b) ==
    IF s = <<>> THEN <<>>
    ELSE <<IF Head(s) = a THEN b ELSE Head(s)>> \o Replace(Tail(s), a, b)

----------------------------------------------------------------------------
(* The literals of desktop_file.py.                                        *)

S_Header == <<"[","D","e","s","k","t","o","p"," ","E","n","t","r","y","]">>
K_Type == <<"T","y","p","e">>
K_Name == <<"N","a","m","e">>
K_Comment == <<"C","o","m","m","e","n","t">>
K_Icon == <<"I","c","o","n">>
K_Exec == <<"E","x","e","c">>
K_Path == <<"P","a","t","h">>
K_Terminal == <<"T","e","r","m","i","n","a","l">>
K_Categories == <<"C","a","t","e","g","o","r","i","e","s">>
K_Keywords == <<"K","e","y","w","o","r","d","s">>
K_URL == <<"U","R","L">>
K_MimeType == <<"M","i","m","e","T","y","p","e">>
K_StartupWMClass == <<"S","t","a","r","t","u","p","W","M","C","l","a","s","s">>
K_Hidden == <<"H","i","d","d","e","n">>
K_EnvVars == <<"X","-","E","n","v","-","V","a","r","s">>
S_true == <<"t","r","u","e">>
S_false == <<"f","a","l","s","e">>
S_env == <<"e","n","v"," ">>
S_Unnamed == <<"U","n","n","a","m","e","d">>
S_Application == <<"A","p","p","l","i","c","a","t","i","o","n">>
S_desktop == <<".","d","e","s","k","t","o","p">>
S_local == <<".","l","o","c","a","l">>

\* DesktopEntry(...): the dataclass with its defaults
DesktopEntry(name, exec) ==
    [name |-> name, exec |-> exec, entry_type |-> S_Application,
     comment |-> <<>>, icon |-> <<>>, path |-> <<>>, terminal |-> FALSE,
     categories |-> <<>>, keywords |-> <<>>, url |-> <<>>, mime_type |-> <<>>,
     hidden |-> FALSE, env_vars |-> <<>>, startup_wm_class |-> <<>>,
     file_path |-> <<>>]

----------------------------------------------------------------------------
(* DesktopEntry.from_string                                                *)

\* data.get(key, default)
Get(d, key, default) == IF key \in DOMAIN d THEN d[key] ELSE default

\* data[key] = value
Put(d, key, value) ==
    [k \in (DOMAIN d) \cup {key} |-> IF k = key THEN value ELSE d[k]]

EmptyDict == [k \in {} |-> <<>>]

\* ScanLine with a scope that is entered and never left
ScanLine_StickyScope(st, raw) ==
    LET line == Strip(raw)
    IN IF line = <<>> \/ StartsWith(line, <<"#">>) THEN st
       ELSE IF StartsWith(line, <<"[">>) /\ EndsWith(line, <<"]">>)
            THEN [st EXCEPT !.in_desktop_entry = (@ \/ line = S_Header)]
       ELSE IF st.in_desktop_entry /\ Contains(line, <<"=">>)
            THEN LET kv == Partition(line, "=")
                 IN [st EXCEPT !.data = Put(st.data, Strip(kv[1]), Strip(kv[2]))]
       ELSE st

\* one pass of the for loop over content.splitlines(): st = [in_desktop_entry, data]
ScanLine(st, raw) ==
    LET line == Strip(raw)
    IN IF line = <<>> \/ StartsWith(line, <<"#">>) THEN st
       ELSE IF StartsWith(line, <<"[">>) /\ EndsWith(line, <<"]">>)
            THEN [st EXCEPT !.in_desktop_entry = (line = S_Header)]
       ELSE IF st.in_desktop_entry /\ Contains(line, <<"=">>)
            THEN LET kv == Partition(line, "=")
                 IN [st EXCEPT !.data = Put(st.data, Strip(kv[1]), Strip(kv[2]))]
       ELSE st

RECURSIVE ScanLines(_, _)
ScanLines(st, ls) ==
    IF ls = <<>> THEN st ELSE ScanLines(ScanLine(st, Head(ls)), Tail(ls))

\* the block "Strip env prefix from Exec if X-Env-Vars is set"
StripEnvPrefix(env_vars, exec_cmd) ==
    IF env_vars # <<>> /\ StartsWith(exec_cmd, S_env)
    THEN LET after_env == SubSeq(exec_cmd, 5, Len(exec_cmd))
             parts == SplitWs(after_env)
             cmd_start_idx ==
                 IF \E i \in 1..Len(parts) : ~Contains(parts[i], <<"=">>)
                 THEN CHOOSE i \in 1..Len(parts) :
                          /\ ~Contains(parts[i], <<"=">>)
                          /\ \A j \in 1..(i - 1) : Contains(parts[j], <<"=">>)
                 ELSE 1
         IN Join(<<" ">>, SubSeq(parts, cmd_start_idx, Len(parts)))
    ELSE exec_cmd

\* the cls(...) call that ends from_string
BuildEntry(d, file_path) ==
    LET env_vars == Get(d, K_EnvVars, <<>>)
        exec_cmd == Get(d, K_Exec, <<>>)
    IN [name |-> Get(d, K_Name, S_Unnamed),
        exec |-> StripEnvPrefix(env_vars, exec_cmd),
        entry_type |-> Get(d, K_Type, S_Application),
        comment |-> Get(d, K_Comment, <<>>),
        icon |-> Get(d, K_Icon, <<>>),
        path |-> Get(d, K_Path, <<>>),
        terminal |-> (Lower(Get(d, K_Terminal, <<>>)) = S_true),
        categories |-> Get(d, K_Categories, <<>>),
        keywords |-> Get(d, K_Keywords, <<>>),
        url |-> Get(d, K_URL, <<>>),
        mime_type |-> Get(d, K_MimeType, <<>>),
        hidden |-> (Lower(Get(d, K_Hidden, <<>>)) = S_true),
        env_vars |-> env_vars,
        startup_wm_class |-> Get(d, K_StartupWMClass, <<>>),
        file_path |-> file_path]

from_string(text, file_path) ==
    BuildEntry(ScanLines([in_desktop_entry |-> FALSE, data |-> EmptyDict],
                         SplitLines(text)).data,
               file_path)

----------------------------------------------------------------------------
(* DesktopEntry.to_string                                                  *)

KeyValue(key, value) == key \o <<"=">> \o value

\* "if self.x: lines.append(f'Key={self.x}')"
Optional(key, value) == IF value # <<>> THEN <<KeyValue(key, value)>> ELSE <<>>

BoolText(b) == IF b THEN S_true ELSE S_false

\* [p.strip() for p in parts if p.strip()]
RECURSIVE StripNonBlank(_)
StripNonBlank(parts) ==
    IF parts = <<>> THEN <<>>
    ELSE (IF Strip(Head(parts)) # <<>> THEN <<Strip(Head(parts))>> ELSE <<>>)
         \o StripNonBlank(Tail(parts))

\* env_parts of to_string
EnvParts(env_vars) == StripNonBlank(SplitOn(env_vars, ";"))

\* ExecLines that wraps whenever env_vars is non-empty
ExecLines_AlwaysWrap(e) ==
    IF e.env_vars # <<>>
    THEN <<K_Exec \o <<"=">> \o S_env \o Join(<<" ">>, EnvParts(e.env_vars))
           \o <<" ">> \o e.exec>>
    ELSE Optional(K_Exec, e.exec)

\* the lines to_string appends for Exec
ExecLines(e) ==
    IF e.exec # <<>>
    THEN IF e.env_vars # <<>>
         THEN LET env_parts == EnvParts(e.env_vars)
              IN IF env_parts # <<>>
                 THEN <<K_Exec \o <<"=">> \o S_env \o Join(<<" ">>, env_parts)
                        \o <<" ">> \o e.exec>>
                 ELSE <<KeyValue(K_Exec, e.exec)>>
         ELSE <<KeyValue(K_Exec, e.exec)>>
    ELSE <<>>

\* ToStringLines with the Path line appended before the Exec line
ToStringLines_Reordered(e) ==
    <<S_Header, KeyValue(K_Type, e.entry_type), KeyValue(K_Name, e.name)>>
    \o Optional(K_Comment, e.comment)
    \o Optional(K_Icon, e.icon)
    \o Optional(K_Path, e.path)
    \o ExecLines(e)
    \o <<KeyValue(K_Terminal, BoolText(e.terminal))>>
    \o Optional(K_Categories, e.categories)
    \o Optional(K_Keywords, e.keywords)
    \o Optional(K_URL, e.url)
    \o Optional(K_MimeType, e.mime_type)
    \o Optional(K_StartupWMClass, e.startup_wm_class)
    \o <<KeyValue(K_Hidden, BoolText(e.hidden))>>
    \o Optional(K_EnvVars, e.env_vars)

\* the list "lines" at the end of to_string
ToStringLines(e) ==
    <<S_Header, KeyValue(K_Type, e.entry_type), KeyValue(K_Name, e.name)>>
    \o Optional(K_Comment, e.comment)
    \o Optional(K_Icon, e.icon)
    \o ExecLines(e)
    \o Optional(K_Path, e.path)
    \o <<KeyValue(K_Terminal, BoolText(e.terminal))>>
    \o Optional(K_Categories, e.categories)
    \o Optional(K_Keywords, e.keywords)
    \o Optional(K_URL, e.url)
    \o Optional(K_MimeType, e.mime_type)
    \o Optional(K_StartupWMClass, e.startup_wm_class)
    \o <<KeyValue(K_Hidden, BoolText(e.hidden))>>
    \o Optional(K_EnvVars, e.env_vars)

to_string(e) == Join(<<NL>>, ToStringLines(e)) \o <<NL>>

----------------------------------------------------------------------------
(* pathlib.Path, on the text of a path.                                    *)

\* the characters of the model in code-point order
CharOrder ==
    <<" ", "-", ".", "/", "0", "1", "2", "=">> \o UpperChars \o <<"[", "]">> \o LowerChars

Ord(c) == CHOOSE i \in 1..Len(CharOrder) : CharOrder[i] = c

\* a <= b for str
RECURSIVE StrLessEq(_, _)
StrLessEq(a, b) ==
    IF a = <<>> THEN TRUE
    ELSE IF b = <<>> THEN FALSE
    ELSE IF Head(a) = Head(b) THEN StrLessEq(Tail(a), Tail(b))
    ELSE Ord(Head(a)) < Ord(Head(b))

RECURSIVE DropEmptyAndDot(_)
DropEmptyAndDot(parts) ==
    IF parts = <<>> THEN <<>>
    ELSE (IF Head(parts) = <<>> \/ Head(parts) = <<".">> THEN <<>> ELSE <<Head(parts)>>)
         \o DropEmptyAndDot(Tail(parts))

\* Path(s).parts without the root
Components(s) == DropEmptyAndDot(SplitOn(s, "/"))

IsAbsolute(s) == StartsWith(s, <<"/">>)

\* str(Path(...)) of an absolute flag and components
PathStr(abs, comps) ==
    IF comps = <<>> THEN (IF abs THEN <<"/">> ELSE <<".">>)
    ELSE (IF abs THEN <<"/">> ELSE <<>>) \o Join(<<"/">>, comps)

\* str(Path(s))
PathOf(s) == PathStr(IsAbsolute(s), Components(s))

\* str(Path(base) / seg): an absolute seg replaces base
PathJoin(base, seg) ==
    IF IsAbsolute(seg) THEN PathOf(seg) ELSE PathOf(base \o <<"/">> \o seg)

\* path.name
PathName(p) ==
    LET c == Components(p) IN IF c = <<>> THEN <<>> ELSE c[Len(c)]

\* str(path.parent)
PathParent(p) ==
    LET c == Components(p)
    IN IF c = <<>> THEN PathOf(p) ELSE PathStr(IsAbsolute(p), SubSeq(c, 1, Len(c) - 1))

RECURSIVE ResolveComponents(_, _)
ResolveComponents(done, rest) ==
    IF rest = <<>> THEN done
    ELSE IF Head(rest) = <<".", ".">>
         THEN ResolveComponents(
                  IF done = <<>> THEN <<>> ELSE SubSeq(done, 1, Len(done) - 1), Tail(rest))
         ELSE ResolveComponents(Append(done, Head(rest)), Tail(rest))

\* the file the OS reaches through an absolute path: ".." leaves a directory
Resolve(p) == PathStr(TRUE, ResolveComponents(<<>>, Components(p)))

\* whether path p, once resolved, lies below directory dir
IsUnder(p, dir) ==
    LET c == Components(Resolve(p))
        d == Components(dir)
    IN Len(c) > Len(d) /\ SubSeq(c, 1, Len(d)) = d

\* Path.home(), given by the environment
Home == <<"/","h">>

get_user_applications_dir ==
    PathJoin(PathJoin(PathJoin(Home, <<".","l","o","c","a","l">>), <<"s","h","a","r","e">>), <<"a","p","p","l","i","c","a","t","i","o","n","s">>)

get_system_applications_dir == PathOf(<<"/","u","s","r","/","s","h","a","r","e","/","a","p","p","l","i","c","a","t","i","o","n","s">>)

\* every directory on the way to path p, p itself left out
Ancestors(p) ==
    LET c == Components(p)
    IN {Resolve(PathStr(TRUE, SubSeq(c, 1, k))) : k \in 0..(Len(c) - 1)}

----------------------------------------------------------------------------
(* The filesystem: fsx maps the resolved path of each file to              *)
(* [readable, text]; dirsx is the set of directories.                      *)

\* path.exists()
Exists(fsx, dirsx, p) == Resolve(p) \in DOMAIN fsx \/ Resolve(p) \in dirsx

\* whether the OS permits creating, writing or unlinking at p: always below the
\* home directory, elsewhere only for a privileged process
Permitted(rootx, p) == rootx \/ IsUnder(p, Home)

\* dir.glob("*.desktop")
Glob(fsx, dirsx, dir) ==
    {PathJoin(dir, PathName(p)) :
        p \in {q \in (DOMAIN fsx) \cup dirsx :
                  /\ q # <<"/">>
                  /\ PathParent(q) = dir
                  /\ EndsWith(PathName(q), S_desktop)}}

\* DesktopEntry.from_file: <<entry>>, or <<>> when read_text raises
from_file(fsx, path) ==
    IF Resolve(path) \in DOMAIN fsx /\ fsx[Resolve(path)].readable
    THEN <<from_string(fsx[Resolve(path)].text, <<path>>)>>
    ELSE <<>>

\* all orders in which a directory scan can yield the members of S
RECURSIVE Orders(_)
Orders(S) ==
    IF S = {} THEN {<<>>}
    ELSE UNION {{<<x>> \o q : q \in Orders(S \ {x})} : x \in S}

\* a sort key that keeps the case of the file name
SortKey_CaseSensitive(f) == PathName(f.path)

\* key=lambda x: x[0].name.lower()
SortKey(f) == Lower(PathName(f.path))

\* sorted(): x goes after every element whose key is not greater
RECURSIVE InsertSorted(_, _)
InsertSorted(sorted, x) ==
    IF sorted = <<>> THEN <<x>>
    ELSE IF StrLessEq(SortKey(Head(sorted)), SortKey(x))
         THEN <<Head(sorted)>> \o InsertSorted(Tail(sorted), x)
         ELSE <<x>> \o sorted

RECURSIVE Sorted(_, _)
Sorted(acc, seq) ==
    IF seq = <<>> THEN acc ELSE Sorted(InsertSorted(acc, Head(seq)), Tail(seq))

RECURSIVE Tagged(_, _)
Tagged(paths, flag) ==
    IF paths = <<>> THEN <<>>
    ELSE <<[path |-> Head(paths), is_user |-> flag]>> \o Tagged(Tail(paths), flag)

\* the scan orders of the two directories; a missing directory is not scanned
UserScans(fsx, dirsx) ==
    IF get_user_applications_dir \in dirsx
    THEN Orders(Glob(fsx, dirsx, get_user_applications_dir)) ELSE {<<>>}

SystemScans(fsx, dirsx) ==
    IF get_system_applications_dir \in dirsx
    THEN Orders(Glob(fsx, dirsx, get_system_applications_dir)) ELSE {<<>>}

\* get_all_desktop_files, given the order in which each glob yields its files
get_all_desktop_files(user_scan, system_scan) ==
    Sorted(<<>>, Tagged(user_scan, TRUE) \o Tagged(system_scan, FALSE))

\* what get_all_desktop_files can return on a filesystem
Listings(fsx, dirsx) ==
    {get_all_desktop_files(u, s) : u \in UserScans(fsx, dirsx), s \in SystemScans(fsx, dirsx)}

\* load_all_entries that gives up at the first file it cannot read
RECURSIVE load_all_entries_StopAtError(_, _)
load_all_entries_StopAtError(fsx, listing) ==
    IF listing = <<>> THEN [raised |-> FALSE, entries |-> <<>>]
    ELSE LET got == from_file(fsx, Head(listing).path)
             rest == load_all_entries_StopAtError(fsx, Tail(listing))
         IN IF got = <<>> THEN [raised |-> FALSE, entries |-> <<>>]
            ELSE [raised |-> rest.raised, entries |-> got \o rest.entries]

\* load_all_entries over the listing get_all_desktop_files returned:
\* [raised, entries]; "except Exception: pass" skips a file that cannot be read
RECURSIVE load_all_entries(_, _)
load_all_entries(fsx, listing) ==
    IF listing = <<>> THEN [raised |-> FALSE, entries |-> <<>>]
    ELSE LET got == from_file(fsx, Head(listing).path)
             rest == load_all_entries(fsx, Tail(listing))
         IN [raised |-> rest.raised, entries |-> got \o rest.entries]

----------------------------------------------------------------------------
(* The Editor panel of app.py: the values of its Input and Switch widgets. *)

\* Editor.clear
Editor_clear ==
    [name |-> <<>>, exec |-> <<>>, comment |-> <<>>, icon |-> <<>>, path |-> <<>>,
     categories |-> <<>>, keywords |-> <<>>, terminal |-> FALSE, hidden |-> FALSE,
     env_vars |-> <<>>, mime_type |-> <<>>, startup_wm_class |-> <<>>, url |-> <<>>]

\* Editor.load_entry
load_entry(e) ==
    [name |-> e.name, exec |-> e.exec, comment |-> e.comment, icon |-> e.icon,
     path |-> e.path, categories |-> e.categories, keywords |-> e.keywords,
     terminal |-> e.terminal, hidden |-> e.hidden, env_vars |-> e.env_vars,
     mime_type |-> e.mime_type, startup_wm_class |-> e.startup_wm_class,
     url |-> e.url]

\* Editor.get_entry(existing): entry_type is not passed and takes its default
get_entry(ed, existing) ==
    [name |-> ed.name, exec |-> ed.exec, entry_type |-> S_Application,
     comment |-> ed.comment, icon |-> ed.icon, path |-> ed.path,
     terminal |-> ed.terminal, categories |-> ed.categories,
     keywords |-> ed.keywords, url |-> ed.url, mime_type |-> ed.mime_type,
     hidden |-> ed.hidden, env_vars |-> ed.env_vars,
     startup_wm_class |-> ed.startup_wm_class,
     file_path |-> IF existing # <<>> THEN existing[1].file_path ELSE <<>>]

\* the path DesktopEntry.save(path=None) writes to
SaveTarget(e) ==
    IF e.file_path # <<>> /\ e.file_path[1] # <<>>
    THEN PathOf(e.file_path[1])
    ELSE PathJoin(get_user_applications_dir,
                  Replace(Lower(e.name), " ", "-") \o S_desktop)

----------------------------------------------------------------------------
(* Bounds and input alphabets of the codec runs.                           *)

MaxTokens == 2
MaxLines == 3
MaxFiles == 3
MaxOps == 4

\* all sequences over S of length 0..n
RECURSIVE SeqsUpTo(_, _)
SeqsUpTo(S, n) ==
    IF n = 0 THEN {<<>>}
    ELSE LET shorter == SeqsUpTo(S, n - 1)
         IN shorter \cup {Append(q, x) : q \in shorter, x \in S}

T_cmd == <<"c","m","d">>
T_A1 == <<"A","=","1">>
T_env == <<"e","n","v">>
T_App == <<"A","p","p">>
T_v == <<"v">>

\* exec values: up to MaxTokens tokens joined by single spaces
ExecValues == {Join(<<" ">>, q) : q \in SeqsUpTo({T_cmd, T_A1, T_env}, MaxTokens)}

\* env_vars values: empty, one token, two tokens, no token, padded tokens
EnvValues ==
    {<<>>, <<"X","=","1">>, <<"X","=","1",";","Y","=","2">>, <<";">>,
     <<"X","=","1"," ",";"," ","Y","=","2">>}

\* entries that vary name, exec and env_vars
EnvEntries ==
    {[DesktopEntry(n, x) EXCEPT !.env_vars = v] :
        n \in {T_App, <<>>}, x \in ExecValues, v \in EnvValues}

OptValue(b) == IF b THEN T_v ELSE <<>>

\* entries that vary which of the other fields are set
FieldEntries ==
    {[DesktopEntry(T_App, T_cmd) EXCEPT
        !.comment = OptValue(f[1]), !.icon = OptValue(f[2]),
        !.path = OptValue(f[3]), !.categories = OptValue(f[4]),
        !.keywords = OptValue(f[5]), !.url = OptValue(f[6]),
        !.mime_type = OptValue(f[7]), !.startup_wm_class = OptValue(f[8]),
        !.terminal = f[9], !.hidden = f[10]] :
        f \in [1..10 -> BOOLEAN]}

CodecEntries == EnvEntries \cup FieldEntries

\* lines of hand-written descriptor text
ParseLineValues ==
    {S_Header,
     <<" ">> \o S_Header \o <<" ">>,
     <<"[","X","]">>,
     <<"N","a","m","e","=","a">>,
     <<" ","N","a","m","e"," ","="," ","b","=","c"," ">>,
     <<"#","N","a","m","e","=","z">>,
     <<"I","c","o","n","=","i">>}

ParseTexts == {Join(<<NL>>, q) : q \in SeqsUpTo(ParseLineValues, MaxLines)}

----------------------------------------------------------------------------
(* Idle values of the variables a run does not use.                        *)

NoEditor == Editor_clear

NoNotification == [kind |-> "none", arg |-> <<>>]

CodecIdle ==
    /\ entry = <<>> /\ content = <<>> /\ line_no = 0
    /\ in_desktop_entry = FALSE /\ data = EmptyDict
    /\ parsed = <<>> /\ output = <<>>

StoreIdle ==
    /\ fs = EmptyDict /\ dirs = {} /\ root = FALSE
    /\ files = <<>> /\ raised = FALSE

AppIdle ==
    /\ entries = <<>> /\ current_entry = <<>> /\ editor = NoEditor
    /\ notification = NoNotification /\ ops = 0

----------------------------------------------------------------------------
(* The codec runs: e -> to_string -> from_string (line by line) ->         *)
(* to_string, and from_string on hand-written text.                        *)

\* content = e.to_string()
Serialize ==
    /\ pc = "serialize"
    /\ content' = to_string(entry[1])
    /\ pc' = "scan"
    /\ UNCHANGED <<entry, line_no, in_desktop_entry, data, parsed, output>>
    /\ UNCHANGED <<storeVars, appVars>>

\* one pass of from_string's loop over content.splitlines()
ScanStep ==
    /\ pc = "scan"
    /\ line_no < Len(SplitLines(content))
    /\ LET st == ScanLine([in_desktop_entry |-> in_desktop_entry, data |-> data],
                          SplitLines(content)[line_no + 1])
       IN /\ in_desktop_entry' = st.in_desktop_entry
          /\ data' = st.data
    /\ line_no' = line_no + 1
    /\ UNCHANGED <<pc, entry, content, parsed, output>>
    /\ UNCHANGED <<storeVars, appVars>>

\* the end of from_string: the env prefix is stripped and the entry built
Finish ==
    /\ pc = "scan"
    /\ line_no = Len(SplitLines(content))
    /\ parsed' = <<BuildEntry(data, <<>>)>>
    /\ pc' = "parsed"
    /\ UNCHANGED <<entry, content, line_no, in_desktop_entry, data, output>>
    /\ UNCHANGED <<storeVars, appVars>>

\* output = parsed.to_string()
Reserialize ==
    /\ pc = "parsed"
    /\ output' = to_string(parsed[1])
    /\ pc' = "done"
    /\ UNCHANGED <<entry, content, line_no, in_desktop_entry, data, parsed>>
    /\ UNCHANGED <<storeVars, appVars>>

InitCodec ==
    /\ pc = "serialize"
    /\ entry \in {<<e>> : e \in CodecEntries}
    /\ content = <<>> /\ line_no = 0 /\ in_desktop_entry = FALSE
    /\ data = EmptyDict /\ parsed = <<>> /\ output = <<>>
    /\ StoreIdle /\ AppIdle

NextCodec == Serialize \/ ScanStep \/ Finish \/ Reserialize

SpecCodec == InitCodec /\ [][NextCodec]_vars

InitParse ==
    /\ pc = "scan"
    /\ entry = <<>>
    /\ content \in ParseTexts
    /\ line_no = 0 /\ in_desktop_entry = FALSE
    /\ data = EmptyDict /\ parsed = <<>> /\ output = <<>>
    /\ StoreIdle /\ AppIdle

NextParse == ScanStep \/ Finish

SpecParse == InitParse /\ [][NextParse]_vars

----------------------------------------------------------------------------
(* The store run: get_all_desktop_files, then load_all_entries, on a       *)
(* filesystem drawn from a bounded set.                                    *)

\* the directories that exist whatever the applications directories do
BaseDirs == {<<"/">>, Home} \cup Ancestors(get_system_applications_dir)

UserDirs == Ancestors(get_user_applications_dir) \cup {get_user_applications_dir}

\* the text of a well-formed descriptor file at path p
FileText(p) == to_string(DesktopEntry(PathName(p), T_cmd))

\* a filesystem holding the files of S, those of U unreadable
MakeFs(S, U) == [p \in S |-> [readable |-> p \notin U, text |-> FileText(p)]]

StoreNames ==
    {<<"a",".","d","e","s","k","t","o","p">>, <<"A",".","d","e","s","k","t","o","p">>,
     <<"B",".","d","e","s","k","t","o","p">>, <<"c",".","d","e","s","k","t","o","p">>,
     <<"n",".","t","x","t">>}

InitStore ==
    /\ pc = "enumerate"
    /\ \E user_exists, system_exists \in BOOLEAN :
          /\ dirs = BaseDirs \cup (IF user_exists THEN UserDirs ELSE {})
                             \cup (IF system_exists THEN {get_system_applications_dir} ELSE {})
          /\ \E S \in SUBSET ({PathJoin(get_user_applications_dir, n) :
                                   n \in IF user_exists THEN StoreNames ELSE {}}
                              \cup {PathJoin(get_system_applications_dir, n) :
                                   n \in IF system_exists THEN StoreNames ELSE {}}) :
                /\ Cardinality(S) <= MaxFiles
                /\ \E U \in SUBSET S : fs = MakeFs(S, U)
    /\ root = FALSE /\ files = <<>> /\ raised = FALSE
    /\ CodecIdle /\ AppIdle

\* files = get_all_desktop_files()
Enumerate ==
    /\ pc = "enumerate"
    /\ \E listing \in Listings(fs, dirs) : files' = listing
    /\ pc' = "load"
    /\ UNCHANGED <<fs, dirs, root, raised>>
    /\ UNCHANGED <<codecVars, appVars>>

\* the loop of load_all_entries over the listing
LoadAll ==
    /\ pc = "load"
    /\ LET result == load_all_entries(fs, files)
       IN /\ entries' = result.entries
          /\ raised' = result.raised
    /\ pc' = "returned"
    /\ UNCHANGED <<fs, dirs, root, files>>
    /\ UNCHANGED <<current_entry, editor, notification, ops>>
    /\ UNCHANGED codecVars

NextStore == Enumerate \/ LoadAll

SpecStore == InitStore /\ [][NextStore]_vars

----------------------------------------------------------------------------
(* MenuEntryApp: on_mount and the handlers of the user's actions.          *)

N_MyApp == <<"M","y"," ","A","p","p">>
N_Sub == <<"a","/","b">>
N_Up == <<".",".","/","x">>

\* what the user types into the Name and Exec inputs
EditNames == {<<>>, N_MyApp, N_Sub, N_Up}
EditExecs == {<<>>, T_cmd}

F_user == PathJoin(get_user_applications_dir, <<"a",".","d","e","s","k","t","o","p">>)
F_system == PathJoin(get_system_applications_dir, <<"s",".","d","e","s","k","t","o","p">>)
F_system_local == PathJoin(get_system_applications_dir, <<"s",".","l","o","c","a","l",".","d","e","s","k","t","o","p">>)

\* MenuEntryApp.load_entries on filesystem fsx: the listing and what was loaded
load_entries(fsx, dirsx) ==
    /\ \E listing \in Listings(fsx, dirsx) :
          /\ files' = listing
          /\ entries' = load_all_entries(fsx, listing).entries
          /\ raised' = load_all_entries(fsx, listing).raised

Notify(kind, arg) == notification' = [kind |-> kind, arg |-> arg]

Init ==
    /\ pc = "mount"
    /\ root \in BOOLEAN
    /\ \E user_files \in {<<>>, <<{}>>, <<{F_user}>>},
          system_files \in SUBSET {F_system, F_system_local} :
          /\ dirs = BaseDirs \cup {get_system_applications_dir}
                             \cup (IF user_files # <<>> THEN UserDirs ELSE {})
          /\ fs = MakeFs(system_files \cup (IF user_files # <<>> THEN user_files[1] ELSE {}), {})
    /\ files = <<>> /\ raised = FALSE
    /\ entries = <<>> /\ current_entry = <<>> /\ editor = Editor_clear
    /\ notification = NoNotification /\ ops = 0
    /\ CodecIdle

\* on_mount
on_mount ==
    /\ pc = "mount"
    /\ load_entries(fs, dirs)
    /\ pc' = "idle"
    /\ UNCHANGED <<fs, dirs, root, current_entry, editor, notification, ops>>
    /\ UNCHANGED codecVars

\* on_list_view_selected: the list shows every loaded entry (the search box only
\* narrows what is shown and is left empty)
on_list_view_selected ==
    /\ pc = "idle" /\ ops < MaxOps
    /\ \E i \in 1..Len(entries) :
          /\ current_entry' = <<entries[i]>>
          /\ editor' = load_entry(entries[i])
    /\ ops' = ops + 1
    /\ UNCHANGED <<pc, entries, notification>>
    /\ UNCHANGED <<storeVars, codecVars>>

\* action_new_entry
action_new_entry ==
    /\ pc = "idle" /\ ops < MaxOps
    /\ current_entry' = <<>>
    /\ editor' = Editor_clear
    /\ Notify("creating", <<>>)
    /\ ops' = ops + 1
    /\ UNCHANGED <<pc, entries>>
    /\ UNCHANGED <<storeVars, codecVars>>

\* the user types into the Name or the Exec input of the editor
Edit ==
    /\ pc = "idle" /\ ops < MaxOps
    /\ \/ \E v \in EditNames \ {editor.name} : editor' = [editor EXCEPT !.name = v]
       \/ \E v \in EditExecs \ {editor.exec} : editor' = [editor EXCEPT !.exec = v]
    /\ ops' = ops + 1
    /\ UNCHANGED <<pc, entries, current_entry, notification>>
    /\ UNCHANGED <<storeVars, codecVars>>

\* action_save, with DesktopEntry.save
action_save ==
    /\ pc = "idle" /\ ops < MaxOps
    /\ ops' = ops + 1
    /\ LET e == get_entry(editor, current_entry)
           path == SaveTarget(e)
           target == Resolve(path)
           missing == (Ancestors(path) \cup Ancestors(target)) \ dirs
       IN IF e.name = <<>>
          THEN /\ Notify("name_required", <<>>)
               /\ UNCHANGED <<fs, dirs, files, raised, entries, current_entry>>
          ELSE IF ~Permitted(root, target) \/ \E d \in missing : ~Permitted(root, d)
          THEN \* mkdir or write_text raises PermissionError
               /\ Notify("permission_denied", <<>>)
               /\ UNCHANGED <<fs, dirs, files, raised, entries, current_entry>>
          ELSE IF target \in dirs \/ \E d \in Ancestors(target) : d \in DOMAIN fs
          THEN \* mkdir or write_text raises another OSError
               /\ Notify("error_saving", <<>>)
               /\ UNCHANGED <<fs, dirs, files, raised, entries, current_entry>>
          ELSE /\ dirs' = dirs \cup missing
               /\ fs' = Put(fs, target, [readable |-> TRUE, text |-> to_string(e)])
               /\ current_entry' = <<[e EXCEPT !.file_path = <<path>>]>>
               /\ Notify("saved", path)
               /\ load_entries(fs', dirs')
    /\ UNCHANGED <<pc, root, editor>>
    /\ UNCHANGED codecVars

\* action_delete
action_delete ==
    /\ pc = "idle" /\ ops < MaxOps
    /\ ops' = ops + 1
    /\ IF current_entry = <<>> \/ current_entry[1].file_path = <<>>
       THEN /\ Notify("no_entry", <<>>)
            /\ UNCHANGED <<fs, files, raised, entries, current_entry, editor>>
       ELSE LET path == PathOf(current_entry[1].file_path[1])
            IN IF ~Exists(fs, dirs, path)
               THEN /\ Notify("not_found", <<>>)
                    /\ UNCHANGED <<fs, files, raised, entries, current_entry, editor>>
               ELSE IF ~Contains(path, S_local)
               THEN /\ Notify("cannot_delete_system", <<>>)
                    /\ UNCHANGED <<fs, files, raised, entries, current_entry, editor>>
               ELSE IF ~Permitted(root, Resolve(path)) \/ Resolve(path) \in dirs
               THEN \* path.unlink() raises
                    /\ Notify("error_deleting", <<>>)
                    /\ UNCHANGED <<fs, files, raised, entries, current_entry, editor>>
               ELSE /\ fs' = [p \in (DOMAIN fs) \ {Resolve(path)} |-> fs[p]]
                    /\ Notify("deleted", PathName(path))
                    /\ current_entry' = <<>>
                    /\ editor' = Editor_clear
                    /\ load_entries(fs', dirs)
    /\ UNCHANGED <<pc, root, dirs>>
    /\ UNCHANGED codecVars

\* action_refresh
action_refresh ==
    /\ pc = "idle" /\ ops < MaxOps
    /\ ops' = ops + 1
    /\ load_entries(fs, dirs)
    /\ Notify("refreshed", <<>>)
    /\ UNCHANGED <<pc, fs, dirs, root, current_entry, editor>>
    /\ UNCHANGED codecVars

Next == on_mount \/ on_list_view_selected \/ action_new_entry \/ Edit \/ action_save \/ action_delete \/ action_refresh

Spec == Init /\ [][Next]_vars

----------------------------------------------------------------------------
(* Properties of the codec.                                                *)

Range(q) == {q[i] : i \in DOMAIN q}

\* C1: serializing, parsing and serializing again gives the text of the first
\* serialization: to_string(from_string(to_string(e))) = to_string(e).
C1_RoundTrip == pc = "done" => output = content

\* the trimmed lines of content, and what the claims call them
TrimmedLine(i) == Strip(SplitLines(content)[i])
IsIgnoredLine(i) == TrimmedLine(i) = <<>> \/ Head(TrimmedLine(i)) = "#"
IsHeaderLine(i) ==
    /\ ~IsIgnoredLine(i)
    /\ Head(TrimmedLine(i)) = "[" /\ TrimmedLine(i)[Len(TrimmedLine(i))] = "]"
IsKeyValueLine(i) ==
    /\ ~IsIgnoredLine(i) /\ ~IsHeaderLine(i)
    /\ \E k \in 1..Len(TrimmedLine(i)) : TrimmedLine(i)[k] = "="
\* the most recent header line before line i is "[Desktop Entry]"
InScope(i) ==
    \E j \in 1..(i - 1) :
        /\ IsHeaderLine(j) /\ TrimmedLine(j) = S_Header
        /\ \A k \in (j + 1)..(i - 1) : ~IsHeaderLine(k)
KeyOf(i) == Strip(Partition(TrimmedLine(i), "=")[1])
ValueOf(i) == Strip(Partition(TrimmedLine(i), "=")[2])
\* the key=value lines among the first n lines that are in scope
ReadLines(n) == {i \in 1..n : IsKeyValueLine(i) /\ InScope(i)}

\* C4: after any number of scanned lines, data holds exactly the keys of the
\* key=value lines whose most recent header line is "[Desktop Entry]" (lines
\* before any header or under another header are not read, a later
\* "[Desktop Entry]" header puts lines back in scope), each split at its first
\* "=" with key and value trimmed, and a key's value is that of its last
\* occurrence in scope; the entry returned takes its fields from data.
C4_ScopeAndLastWins ==
    pc \in {"scan", "parsed"} /\ entry = <<>> =>
        /\ DOMAIN data = {KeyOf(i) : i \in ReadLines(line_no)}
        /\ \A i \in ReadLines(line_no) :
              (\A j \in ReadLines(line_no) : j > i => KeyOf(j) # KeyOf(i))
                  => data[KeyOf(i)] = ValueOf(i)
        /\ pc = "parsed" =>
              /\ parsed[1].name = Get(data, K_Name, S_Unnamed)
              /\ parsed[1].icon = Get(data, K_Icon, <<>>)

\* a text was parsed in which a key occurs twice in scope and a key=value
\* line lies out of scope
C4_Witness ==
    /\ pc = "parsed" /\ entry = <<>>
    /\ \E i, j \in ReadLines(line_no) : i < j /\ KeyOf(i) = KeyOf(j)
    /\ parsed[1].name = <<"b","=","c">>

\* the tokens left after the leading tokens that contain "=" are dropped
RECURSIVE DropAssignments(_)
DropAssignments(tokens) ==
    IF tokens = <<>> THEN <<>>
    ELSE IF \E k \in 1..Len(Head(tokens)) : Head(tokens)[k] = "="
         THEN DropAssignments(Tail(tokens))
         ELSE tokens

\* C5: when X-Env-Vars is non-empty and the Exec value begins with "env ",
\* the stored exec is the Exec value without "env " and without all leading
\* tokens that contain "=" (nothing is left when every token contains "=").
C5_EnvPrefixStripped ==
    pc \in {"parsed", "done"} =>
        LET env_value == Get(data, K_EnvVars, <<>>)
            exec_value == Get(data, K_Exec, <<>>)
        IN env_value # <<>> /\ StartsWith(exec_value, S_env) =>
              parsed[1].exec =
                  Join(<<" ">>, DropAssignments(SplitWs(SubSeq(exec_value, 5, Len(exec_value)))))

\* the Exec lines of the serialized text
ExecLinesOf(text) ==
    {l \in Range(SplitLines(text)) : StartsWith(l, K_Exec \o <<"=">>)}

WrappedExec(e) ==
    K_Exec \o <<"=">> \o S_env \o Join(<<" ">>, EnvParts(e.env_vars)) \o <<" ">> \o e.exec

\* C6 as stated: whenever env_vars is non-empty, the text holds the line
\* "Exec=env <tokens> <exec>", whatever env_vars and exec are.
C6_AlwaysWrapped ==
    pc # "serialize" /\ entry # <<>> /\ entry[1].env_vars # <<>> =>
        WrappedExec(entry[1]) \in ExecLinesOf(content)

\* C6 amended: with env_vars non-empty, the text holds exactly one Exec line
\* "Exec=env <trimmed non-blank tokens joined by spaces> <exec>" when exec is
\* non-empty and env_vars holds a non-blank token, the plain line
\* "Exec=<exec>" when exec is non-empty and env_vars holds no such token, and
\* no Exec line when exec is empty.
C6_ExecLine ==
    pc # "serialize" /\ entry # <<>> /\ entry[1].env_vars # <<>> =>
        LET e == entry[1]
        IN ExecLinesOf(content) =
              IF e.exec = <<>> THEN {}
              ELSE IF EnvParts(e.env_vars) = <<>> THEN {K_Exec \o <<"=">> \o e.exec}
              ELSE {WrappedExec(e)}

\* an entry with two env tokens and a command was serialized
C6_Witness ==
    /\ pc = "scan" /\ entry # <<>>
    /\ entry[1].env_vars = <<"X","=","1",";","Y","=","2">>
    /\ entry[1].exec = T_cmd
    /\ <<"E","x","e","c","=","e","n","v"," ","X","=","1"," ","Y","=","2"," ","c","m","d">>
           \in ExecLinesOf(content)

KeyOrder ==
    <<K_Type, K_Name, K_Comment, K_Icon, K_Exec, K_Path, K_Terminal, K_Categories,
      K_Keywords, K_URL, K_MimeType, K_StartupWMClass, K_Hidden, K_EnvVars>>

\* whether the claim says the line of KeyOrder[k] is present for entry e
LinePresent(e, k) ==
    CASE k = 3 -> e.comment # <<>>
      [] k = 4 -> e.icon # <<>>
      [] k = 5 -> e.exec # <<>>
      [] k = 6 -> e.path # <<>>
      [] k = 8 -> e.categories # <<>>
      [] k = 9 -> e.keywords # <<>>
      [] k = 10 -> e.url # <<>>
      [] k = 11 -> e.mime_type # <<>>
      [] k = 12 -> e.startup_wm_class # <<>>
      [] k = 14 -> e.env_vars # <<>>
      [] OTHER -> TRUE

\* C7: the serialized text is the header line followed by key lines in the
\* order Type, Name, Comment, Icon, Exec, Path, Terminal, Categories,
\* Keywords, URL, MimeType, StartupWMClass, Hidden, X-Env-Vars; Type, Name,
\* Terminal and Hidden are always there (Terminal and Hidden as true/false),
\* each other line exactly when its field is non-empty, and the text ends
\* with exactly one newline.
C7_FieldOrder ==
    pc # "serialize" /\ entry # <<>> =>
        LET e == entry[1]
            ls == SplitLines(content)
            keyAt(i) == Partition(ls[i], "=")[1]
            posOf(i) == CHOOSE k \in 1..Len(KeyOrder) : KeyOrder[k] = keyAt(i)
        IN /\ Len(content) >= 2
           /\ content[Len(content)] = NL /\ content[Len(content) - 1] # NL
           /\ Len(ls) >= 1 /\ ls[1] = S_Header
           /\ \A i \in 2..Len(ls) :
                 /\ \E k \in 1..Len(ls[i]) : ls[i][k] = "="
                 /\ keyAt(i) \in Range(KeyOrder)
           /\ \A i, j \in 2..Len(ls) : i < j => posOf(i) < posOf(j)
           /\ \A k \in 1..Len(KeyOrder) :
                 (\E i \in 2..Len(ls) : keyAt(i) = KeyOrder[k]) <=> LinePresent(e, k)
           /\ (K_Terminal \o <<"=">> \o (IF e.terminal THEN S_true ELSE S_false))
                 \in Range(ls)
           /\ (K_Hidden \o <<"=">> \o (IF e.hidden THEN S_true ELSE S_false))
                 \in Range(ls)

\* an entry with some optional fields set and others empty was serialized
C7_Witness ==
    /\ pc = "scan" /\ entry # <<>>
    /\ entry[1].comment # <<>> /\ entry[1].path # <<>> /\ entry[1].url = <<>>
    /\ entry[1].hidden /\ ~entry[1].terminal
    /\ Len(SplitLines(content)) = 10

----------------------------------------------------------------------------
(* Properties of the store.                                                *)

IsDescriptorIn(p, dir) == PathParent(p) = dir /\ EndsWith(PathName(p), S_desktop)

\* one pair per *.desktop file of the two applications directories
ExpectedPairs ==
    {[path |-> p, is_user |-> TRUE] :
        p \in {q \in DOMAIN fs : IsDescriptorIn(q, get_user_applications_dir)}}
    \cup
    {[path |-> p, is_user |-> FALSE] :
        p \in {q \in DOMAIN fs : IsDescriptorIn(q, get_system_applications_dir)}}

\* C8: get_all_desktop_files returns exactly one pair for every *.desktop
\* file of the user directory (flag true) and of the system directory (flag
\* false) and no other pair, in non-decreasing order of the lowercased file
\* name whatever order the directories were scanned in; a directory that does
\* not exist contributes no pair.
C8_ListingSorted ==
    pc \in {"load", "returned"} =>
        /\ Range(files) = ExpectedPairs
        /\ Len(files) = Cardinality(ExpectedPairs)
        /\ \A i, j \in 1..Len(files) :
              i < j => StrLessEq(Lower(PathName(files[i].path)),
                                 Lower(PathName(files[j].path)))
        /\ get_user_applications_dir \notin dirs => \A i \in 1..Len(files) : ~files[i].is_user
        /\ get_system_applications_dir \notin dirs => \A i \in 1..Len(files) : files[i].is_user

\* a listing of a.desktop (system), B.desktop (user), c.desktop (user) was returned
C8_Witness ==
    /\ pc = "load" /\ Len(files) = 3
    /\ PathName(files[1].path) = <<"a",".","d","e","s","k","t","o","p">> /\ ~files[1].is_user
    /\ PathName(files[2].path) = <<"B",".","d","e","s","k","t","o","p">> /\ files[2].is_user
    /\ PathName(files[3].path) = <<"c",".","d","e","s","k","t","o","p">> /\ files[3].is_user

\* the positions of the listing whose file can be read
ReadablePositions == {i \in 1..Len(files) : fs[files[i].path].readable}

\* the k-th of them
ReadablePosition(k) ==
    CHOOSE i \in ReadablePositions : Cardinality({j \in ReadablePositions : j < i}) = k - 1

\* C9: load_all_entries lets no exception escape and returns exactly one entry
\* per listed file that can be read, in the order of the listing, each parsed
\* from that file; a file that cannot be read is left out and the files after
\* it are still loaded.
C9_SkipsUnreadable ==
    pc = "returned" =>
        /\ raised = FALSE
        /\ Len(entries) = Cardinality(ReadablePositions)
        /\ \A k \in 1..Len(entries) :
              LET p == files[ReadablePosition(k)].path
              IN entries[k] = from_string(fs[p].text, <<p>>)

\* three files were listed, the second unreadable, the other two loaded
C9_Witness ==
    /\ pc = "returned" /\ Len(files) = 3
    /\ ReadablePositions = {1, 3}
    /\ Len(entries) = 2
    /\ entries[2].file_path = <<files[3].path>>

----------------------------------------------------------------------------
(* Properties of the app.                                                  *)

\* C2: whatever the user does, every file of the system applications
\* directory stays on disk, whatever its name.
C2_SystemFilesKept ==
    [][\A p \in DOMAIN fs :
          IsUnder(p, get_system_applications_dir) => p \in DOMAIN fs']_vars

\* C3: a save of an entry without file_path writes one file, under the user
\* applications directory, named after the lowercased entry name with spaces
\* replaced by hyphens plus ".desktop", and sets the entry's file_path to it.
C3_NewEntryPath ==
    [][(/\ action_save
        /\ current_entry = <<>> \/ current_entry[1].file_path = <<>>
        /\ notification'.kind = "saved")
       => LET p == notification'.arg
          IN /\ IsUnder(p, get_user_applications_dir)
             /\ PathName(p) = Replace(Lower(editor.name), " ", "-") \o S_desktop
             /\ current_entry'[1].file_path = <<p>>
             /\ Resolve(p) \in DOMAIN fs'
             /\ \A q \in (DOMAIN fs') \ {Resolve(p)} : q \in DOMAIN fs /\ fs'[q] = fs[q]]_vars

\* C10: the app never reports a save to a path of the system applications
\* directory: save is not carried out for an entry loaded from there.
C10_NoSaveOfSystemEntry ==
    notification.kind = "saved" =>
        ~IsUnder(notification.arg, get_system_applications_dir)

=============================================================================
